---- MODULE Spec2Model ----
(***************************************************************************)
(* Replay engine and data-block discovery of binance-LOB (src/replay.py),   *)
(* and its ingester: supervisor and stream sessions (src/main.py), logger  *)
(* and batching writer (src/model.py).                                     *)
(*                                                                         *)
(* The store holds, for one symbol, the depthsnapshot table and the        *)
(* diffdepthstream table, both kept here in timestamp order (the order of  *)
(* every ORDER BY timestamp query).  Prices and quantities are integers.   *)
(* A Python generator is a state machine: "created" before the first       *)
(* next(), "suspended" at a yield, "returned" after a return or the end of *)
(* its loop, "raised" after an exception left it.                          *)
(***************************************************************************)
EXTENDS Integers, Sequences, FiniteSets, TLC

VARIABLES
    snapshot_table,   \* rows of depthsnapshot, in timestamp order
    diff_table,       \* rows of diffdepthstream, in timestamp order
    start_update_id,  \* the last_update_id argument of the replay generators
    full,             \* orderbook_generator instances, by instance id
    partial,          \* the partial_orderbook_generator instance
    blocks,           \* get_all_data_blocks: its loop state
    symbols,          \* CONFIG.symbols, each a sequence of characters
    sessions,         \* handle_depth_stream tasks, in creation order
    fetch_tasks,      \* get_full_depth tasks created and not yet run
    dispatcher,       \* the DiffDepthStreamDispatcher object
    database,         \* the tables written by the ingester
    clock,            \* time()
    history           \* what insert was called with, and how flushes went

replay == <<snapshot_table, diff_table, start_update_id, full, partial, blocks>>

ingester == <<symbols, sessions, fetch_tasks, dispatcher, database, clock, history>>

vars == <<snapshot_table, diff_table, start_update_id, full, partial, blocks,
          symbols, sessions, fetch_tasks, dispatcher, database, clock, history>>

\* Nothing has been inserted and no flush has been attempted.
NoHistory ==
    [setup |-> "none",        \* how setup ended
     inserted |-> <<>>,       \* the rows insert was called with, in call order
     frames |-> <<>>,         \* the frame each of them was made from
     attempts |-> 0,          \* calls of insert_to_db
     failures |-> 0,          \* those the store rejected
     flush |-> "none",        \* how the last of them went
     fetch_failures |-> 0,    \* get_full_depth tasks an exception has ended
     insert_raised |-> FALSE] \* whether an exception has left insert

\* The ingester is not running while the store is replayed.
IngesterIdle ==
    /\ symbols = <<>>
    /\ sessions = <<>>
    /\ fetch_tasks = <<>>
    /\ dispatcher = [buffer |-> <<>>]
    /\ database = [diffdepthstream |-> <<>>, depthsnapshot |-> <<>>, loggingmsg |-> <<>>]
    /\ clock = 0
    /\ history = NoHistory

(***************************************************************************)
(* Bounds of the model.                                                    *)
(***************************************************************************)
MaxDiffs == 3
MaxSnapshots == 2
MaxPrice == 2
MaxQty == 1
MaxLevel == 2

\* Python's None where the code holds an Optional[int]; update ids are UInt64.
None == -1

Prices == 1..MaxPrice
Qtys == 0..MaxQty
Levels == 1..MaxLevel

Min(a, b) == IF a < b THEN a ELSE b

Last(seq) == seq[Len(seq)]


(***************************************************************************)
(* Python dict / SortedDict as a function from its key set.                *)
(***************************************************************************)
EmptyBook == [p \in {} |-> 0]

DictSet(book, p, q) == [k \in (DOMAIN book) \cup {p} |-> IF k = p THEN q ELSE book[k]]

DictPop(book, p) == [k \in (DOMAIN book) \ {p} |-> book[k]]

\* dict.clear()
DictClearMerging(book) == book

DictClear(book) == EmptyBook

\* dict.update(zip(price, quantity)): later pairs overwrite earlier ones.
DictUpdate(book, price, quantity) ==
    LET n == Min(Len(price), Len(quantity))
        RECURSIVE put(_, _)
        put(i, d) == IF i > n THEN d ELSE put(i + 1, DictSet(d, price[i], quantity[i]))
    IN  put(1, book)

\* {p: q for p, q in zip(price, quantity)}
lists_to_dict(price, quantity) == DictUpdate(EmptyBook, price, quantity)

update_book_keeping_zero(book, price, quantity) == DictUpdate(book, price, quantity)

\* for p, q in zip(price, quantity): pop p when q == 0, else book[p] = q
update_book(book, price, quantity) ==
    LET n == Min(Len(price), Len(quantity))
        RECURSIVE step(_, _)
        step(i, d) ==
            IF i > n THEN d
            ELSE step(i + 1, IF quantity[i] = 0
                             THEN DictPop(d, price[i])
                             ELSE DictSet(d, price[i], quantity[i]))
    IN  step(1, book)

(***************************************************************************)
(* Queries.                                                                *)
(***************************************************************************)
SnapshotQueryInclusive(table, last_update_id) ==
    SelectSeq(table, LAMBDA s : s.last_update_id >= last_update_id)

\* DepthSnapshot rows with last_update_id > the argument, ORDER BY timestamp.
SnapshotQuery(table, last_update_id) ==
    SelectSeq(table, LAMBDA s : s.last_update_id > last_update_id)

\* DiffDepthStream rows with final_update_id >= the argument, ORDER BY timestamp.
diff_depth_stream_generator(table, last_update_id) ==
    SelectSeq(table, LAMBDA d : d.final_update_id >= last_update_id)

\* sql_result.pop(0) if sql_result else None; an Optional row is a sequence of
\* length at most one.
PopFirst(sql_result) == IF Len(sql_result) > 0 THEN <<Head(sql_result)>> ELSE <<>>

AfterPop(sql_result) == IF Len(sql_result) > 0 THEN Tail(sql_result) ELSE sql_result

(***************************************************************************)
(* The three tests of the replay loop, as the code writes them.            *)
(***************************************************************************)
GapDetectedNever(prev_final_update_id, first_update_id) == FALSE

\* prev_final_update_id is not None and prev_final_update_id + 1 != first_update_id
GapDetected(prev_final_update_id, first_update_id) ==
    /\ prev_final_update_id # None
    /\ prev_final_update_id + 1 # first_update_id

\* prev_final_update_id is None and (last_update_id + 1 < first_update_id
\*                                   or last_update_id + 1 > final_update_id)
AnchorMalformed(prev_final_update_id, last_update_id, first_update_id, final_update_id) ==
    /\ prev_final_update_id = None
    /\ \/ last_update_id + 1 < first_update_id
       \/ last_update_id + 1 > final_update_id

\* next_snapshot is not None and
\*   first_update_id <= next_snapshot[1] + 1 <= final_update_id
ReanchorHit(next_snapshot, first_update_id, final_update_id) ==
    /\ Len(next_snapshot) > 0
    /\ first_update_id <= next_snapshot[1].last_update_id + 1
    /\ next_snapshot[1].last_update_id + 1 <= final_update_id

(***************************************************************************)
(* One pass of the body of the for loop over the diff stream, up to the    *)
(* yield: the new generator state, with field "out" saying how the pass    *)
(* ended ("yield", "return", "raise").                                     *)
(***************************************************************************)
LoopBody(g, row) ==
    IF GapDetected(g.prev_final_update_id, row.first_update_id)
    THEN [g EXCEPT !.out = "return"]
    ELSE
      LET prev == row.final_update_id
      IN
      IF AnchorMalformed(prev, g.last_update_id, row.first_update_id, row.final_update_id)
      THEN [g EXCEPT !.out = "raise", !.prev_final_update_id = prev]
      ELSE
        LET hit == ReanchorHit(g.next_snapshot, row.first_update_id, row.final_update_id)
            bids0 == IF hit
                     THEN DictUpdate(DictClear(g.bids_book),
                                     g.next_snapshot[1].bids_price,
                                     g.next_snapshot[1].bids_quantity)
                     ELSE g.bids_book
            asks0 == IF hit
                     THEN DictUpdate(DictClear(g.asks_book),
                                     g.next_snapshot[1].asks_price,
                                     g.next_snapshot[1].asks_quantity)
                     ELSE g.asks_book
        IN  [g EXCEPT !.out = "yield",
                      !.prev_final_update_id = prev,
                      !.reanchored = hit,
                      !.next_snapshot = IF hit THEN PopFirst(g.sql_result) ELSE @,
                      !.sql_result = IF hit THEN AfterPop(g.sql_result) ELSE @,
                      !.bids_book = update_book(bids0, row.bids_price, row.bids_quantity),
                      !.asks_book = update_book(asks0, row.asks_price, row.asks_quantity)]

(***************************************************************************)
(* The partial book: the first `level` items of each SortedDict, zipped    *)
(* rank by rank and flattened with chain(bids, asks).                      *)
(***************************************************************************)
RECURSIVE KeysDescending(_)
KeysDescending(S) ==
    IF S = {} THEN <<>>
    ELSE LET m == CHOOSE x \in S : \A y \in S : y <= x
         IN  <<m>> \o KeysDescending(S \ {m})

RECURSIVE KeysAscending(_)
KeysAscending(S) ==
    IF S = {} THEN <<>>
    ELSE LET m == CHOOSE x \in S : \A y \in S : x <= y
         IN  <<m>> \o KeysAscending(S \ {m})

\* SortedDict(lambda x: -x, ...).items()[:level]
BidsItems(bids_book, level) ==
    LET keys == KeysDescending(DOMAIN bids_book)
    IN  [i \in 1..Min(level, Len(keys)) |-> <<keys[i], bids_book[keys[i]]>>]

\* SortedDict(...).items()[:level]
AsksItems(asks_book, level) ==
    LET keys == KeysAscending(DOMAIN asks_book)
    IN  [i \in 1..Min(level, Len(keys)) |-> <<keys[i], asks_book[keys[i]]>>]

\* [val for (bids, asks) in zip(bids_items, asks_items) for val in chain(bids, asks)]
PartialResult(bids_book, asks_book, level) ==
    LET bids_items == BidsItems(bids_book, level)
        asks_items == AsksItems(asks_book, level)
        n == Min(Len(bids_items), Len(asks_items))
    IN  [j \in 1..(4 * n) |->
            LET rank == ((j - 1) \div 4) + 1
                col == (j - 1) % 4
            IN  CASE col = 0 -> bids_items[rank][1]
                  [] col = 1 -> bids_items[rank][2]
                  [] col = 2 -> asks_items[rank][1]
                  [] col = 3 -> asks_items[rank][2]]

(***************************************************************************)
(* Generator instances.  Fields beyond the code's locals: pc (where the    *)
(* generator stands), consumed (rows taken from the diff stream), out and  *)
(* reanchored (how the last pass of the loop went), yielded (every value   *)
(* handed to the caller, in order) and rows (for each yielded value the    *)
(* index of the stream row it was built from, 0 for the anchor) and hits   *)
(* (for each yielded value, whether its pass re-anchored on a snapshot).   *)
(***************************************************************************)
Gens == {"main", "restart"}

NewGenerator(pc, start, level) ==
    [pc |-> pc, start |-> start, level |-> level,
     last_update_id |-> start,
     bids_book |-> EmptyBook, asks_book |-> EmptyBook,
     next_snapshot |-> <<>>, sql_result |-> <<>>,
     prev_final_update_id |-> None,
     return_copy |-> TRUE,
     consumed |-> 0, out |-> "none", reanchored |-> FALSE,
     yielded |-> <<>>, rows |-> <<>>, hits |-> <<>>]

FullBook(timestamp, last_update_id, bids, asks) ==
    [timestamp |-> timestamp, last_update_id |-> last_update_id,
     bids |-> bids, asks |-> asks]

PartialBook(timestamp, last_update_id, book) ==
    [timestamp |-> timestamp, last_update_id |-> last_update_id, book |-> book]

\* From the snapshot query to the first yield (or the return on no snapshot).
Anchor(g, table) ==
    LET sql_result == SnapshotQuery(table, g.start)
    IN  IF Len(sql_result) = 0
        THEN [g EXCEPT !.pc = "returned", !.out = "return"]
        ELSE LET snapshot == Head(sql_result)
                 rest == Tail(sql_result)
             IN  [g EXCEPT !.pc = "suspended", !.out = "yield",
                           !.next_snapshot = PopFirst(rest),
                           !.sql_result = AfterPop(rest),
                           !.last_update_id = snapshot.last_update_id,
                           !.bids_book = lists_to_dict(snapshot.bids_price,
                                                       snapshot.bids_quantity),
                           !.asks_book = lists_to_dict(snapshot.asks_price,
                                                       snapshot.asks_quantity),
                           !.rows = Append(@, 0),
                           !.hits = Append(@, FALSE)]

AnchorTimestamp(g, table) == Head(SnapshotQuery(table, g.start)).timestamp

\* The next row of the diff stream through the loop body.
Advance(g, table) ==
    LET stream == diff_depth_stream_generator(table, g.last_update_id)
    IN  IF g.consumed >= Len(stream)
        THEN [g EXCEPT !.pc = "returned", !.out = "return"]
        ELSE LET row == stream[g.consumed + 1]
                 h == LoopBody([g EXCEPT !.consumed = @ + 1, !.reanchored = FALSE], row)
             IN  CASE h.out = "return" -> [h EXCEPT !.pc = "returned"]
                   [] h.out = "raise" -> [h EXCEPT !.pc = "raised"]
                   [] h.out = "yield" -> [h EXCEPT !.rows = Append(@, g.consumed + 1),
                                                   !.hits = Append(@, h.reanchored)]

CurrentRow(g, table) ==
    diff_depth_stream_generator(table, g.last_update_id)[g.consumed]

WithYield(g, value) == IF g.out = "yield" THEN [g EXCEPT !.yielded = Append(@, value)] ELSE g

\* The yield of orderbook_generator.  With return_copy the FullBook holds
\* bids_book.copy() and asks_book.copy().  Without it the FullBook holds the
\* two dict objects themselves; the loop never rebinds bids_book and
\* asks_book, it clears and updates them in place, so every FullBook yielded
\* before shows, through the same two objects, what they hold now.
YieldFullCopying(g, value) == WithYield(g, value)

YieldFull(g, value) ==
    IF g.return_copy
    THEN WithYield(g, value)
    ELSE WithYield([g EXCEPT !.yielded =
                       [k \in 1..Len(@) |-> [@[k] EXCEPT !.bids = g.bids_book,
                                                         !.asks = g.asks_book]]],
                   value)

\* next() on an orderbook_generator.
orderbook_generator(i) ==
    /\ full[i].pc \in {"created", "suspended"}
    /\ LET g == IF full[i].pc = "created"
                THEN Anchor(full[i], snapshot_table)
                ELSE Advance(full[i], diff_table)
           timestamp == IF g.out # "yield" THEN 0
                        ELSE IF full[i].pc = "created"
                             THEN AnchorTimestamp(full[i], snapshot_table)
                             ELSE CurrentRow(g, diff_table).timestamp
           last_update_id == IF full[i].pc = "created"
                             THEN g.last_update_id
                             ELSE g.prev_final_update_id
       IN  full' = [full EXCEPT ![i] =
                YieldFull(g, FullBook(timestamp, last_update_id, g.bids_book, g.asks_book))]
    /\ UNCHANGED <<snapshot_table, diff_table, start_update_id, partial, blocks>>
    /\ UNCHANGED ingester

\* next() on the partial_orderbook_generator.
partial_orderbook_generator ==
    /\ partial.pc \in {"created", "suspended"}
    /\ LET g == IF partial.pc = "created"
                THEN Anchor(partial, snapshot_table)
                ELSE Advance(partial, diff_table)
           timestamp == IF g.out # "yield" THEN 0
                        ELSE IF partial.pc = "created"
                             THEN AnchorTimestamp(partial, snapshot_table)
                             ELSE CurrentRow(g, diff_table).timestamp
           last_update_id == IF partial.pc = "created"
                             THEN g.last_update_id
                             ELSE g.prev_final_update_id
       IN  partial' = WithYield(g, PartialBook(timestamp, last_update_id,
                                   PartialResult(g.bids_book, g.asks_book, g.level)))
    /\ UNCHANGED <<snapshot_table, diff_table, start_update_id, full, blocks>>
    /\ UNCHANGED ingester

(***************************************************************************)
(* Store contents.  A row's timestamp is its position in its table.        *)
(* Update ids are assigned by the venue in increasing order, so the diff   *)
(* rows of one symbol carry disjoint, increasing [first, final] ranges;    *)
(* between two rows there is either no gap or a gap (a lost frame).        *)
(***************************************************************************)
SnapshotRow(id, bp, bq, ap, aq) ==
    [timestamp |-> 0, last_update_id |-> id,
     bids_price |-> bp, bids_quantity |-> bq,
     asks_price |-> ap, asks_quantity |-> aq]

DiffRow(first, final, bp, bq, ap, aq) ==
    [timestamp |-> 0, first_update_id |-> first, final_update_id |-> final,
     bids_price |-> bp, bids_quantity |-> bq,
     asks_price |-> ap, asks_quantity |-> aq]

Stamped(table) == [i \in 1..Len(table) |-> [table[i] EXCEPT !.timestamp = i]]

\* Sequences of n [first, final] ranges: each starts one (no gap) or two (gap)
\* after the previous range ends and spans one or two update ids.
RECURSIVE IdRanges(_)
IdRanges(n) ==
    IF n = 0 THEN {<<>>}
    ELSE UNION { { Append(s, <<f, f + span>>) :
                     f \in { (IF Len(s) = 0 THEN 1 ELSE s[Len(s)][2] + 1) + gap : gap \in 0..1 },
                     span \in 0..1 } :
                 s \in IdRanges(n - 1) }

SeqsUpTo(S, n) == UNION { [1..k -> S] : k \in 0..n }

\* Tables that vary the update ids; every row removes bid level 1 and sets ask
\* level 2.
IdDiffTables ==
    { [i \in 1..Len(r) |-> DiffRow(r[i][1], r[i][2], <<1>>, <<0>>, <<2>>, <<1>>)] :
        r \in UNION { IdRanges(n) : n \in 0..MaxDiffs } }

IdSnapshotTables ==
    { [i \in 1..Len(ids) |-> SnapshotRow(ids[i], <<2, 1>>, <<1, 1>>, <<1, 2>>, <<1, 1>>)] :
        ids \in SeqsUpTo(1..(MaxDiffs + 1), MaxSnapshots) }

\* Tables that vary the book contents on a fixed run of update ids: an anchor
\* at 1, two contiguous diffs [2, 2] and [3, 3], and a later snapshot which the
\* second diff intersects (at 2) or no diff does (at 3).
\* A snapshot side lists its first n price levels, all with one quantity.
SnapshotSides(counts) ==
    { [price |-> [i \in 1..n |-> i], quantity |-> [i \in 1..n |-> q]] :
        n \in counts, q \in 1..MaxQty }

NoChange == [price |-> <<>>, quantity |-> <<>>]

\* A diff side changes at most one price level (quantity 0 removes it).
DiffSides ==
    {NoChange} \cup { [price |-> <<p>>, quantity |-> <<q>>] : p \in Prices, q \in Qtys }

BidChanges == { [bids |-> b, asks |-> NoChange] : b \in DiffSides }

AskChanges == { [bids |-> NoChange, asks |-> a] : a \in DiffSides }

BookSnapshotTables ==
    { << SnapshotRow(1, a.price, a.quantity, b.price, b.quantity),
         SnapshotRow(id, c.price, c.quantity, d.price, d.quantity) >> :
        a \in SnapshotSides({0, 1, MaxPrice}), b \in SnapshotSides({MaxPrice}),
        c \in SnapshotSides({0, 1, MaxPrice}), d \in SnapshotSides({0, MaxPrice}),
        id \in 2..3 }

BookDiffTables ==
    { << DiffRow(2, 2, x.bids.price, x.bids.quantity, x.asks.price, x.asks.quantity),
         DiffRow(3, 3, y.bids.price, y.bids.quantity, y.asks.price, y.asks.quantity) >> :
        x \in BidChanges \cup AskChanges, y \in BidChanges }

NoBlocks == [pc |-> "idle"]

InitReplay ==
    /\ \/ /\ snapshot_table \in { Stamped(t) : t \in IdSnapshotTables }
          /\ diff_table \in { Stamped(t) : t \in IdDiffTables }
          /\ start_update_id \in 0..1
          /\ partial = NewGenerator("created", start_update_id, MaxLevel)
       \/ /\ snapshot_table \in { Stamped(t) : t \in BookSnapshotTables }
          /\ diff_table \in { Stamped(t) : t \in BookDiffTables }
          /\ start_update_id = 0
          /\ \E level \in Levels : partial = NewGenerator("created", start_update_id, level)
    /\ full = [i \in Gens |-> NewGenerator(IF i = "main" THEN "created" ELSE "unused",
                                           start_update_id, 0)]
    /\ blocks = NoBlocks
    /\ IngesterIdle

Init == InitReplay

Next ==
    \/ \E i \in Gens : orderbook_generator(i)
    \/ partial_orderbook_generator

Spec == Init /\ [][Next]_vars

(***************************************************************************)
(* A store filled from one venue history.  The venue's book starts with    *)
(* one bid and one ask level; update id n changes one bid level.  The      *)
(* session persists each frame [n, n] it receives; the frames before its   *)
(* first one are lost.  A snapshot at id n is the venue's book after       *)
(* update n.  The diff rows so persisted form one contiguous block.        *)
(***************************************************************************)
VenueStart == [bids |-> DictSet(EmptyBook, 1, 1), asks |-> DictSet(EmptyBook, MaxPrice, 1)]

RECURSIVE VenueBook(_, _)
VenueBook(updates, n) ==
    IF n = 0 THEN VenueStart
    ELSE LET b == VenueBook(updates, n - 1)
         IN  [b EXCEPT !.bids = IF updates[n].quantity = 0
                                 THEN DictPop(@, updates[n].price)
                                 ELSE DictSet(@, updates[n].price, updates[n].quantity)]

VenueSnapshot(updates, n) ==
    LET b == VenueBook(updates, n)
        bp == KeysDescending(DOMAIN b.bids)
        ap == KeysAscending(DOMAIN b.asks)
    IN  SnapshotRow(n, bp, [i \in 1..Len(bp) |-> b.bids[bp[i]]],
                       ap, [i \in 1..Len(ap) |-> b.asks[ap[i]]])

\* The frames of updates lost + 1 .. Len(updates).
VenueDiffs(updates, lost) ==
    [i \in 1..(Len(updates) - lost) |->
        DiffRow(lost + i, lost + i,
                <<updates[lost + i].price>>, <<updates[lost + i].quantity>>, <<>>, <<>>)]

VenueUpdates == [1..MaxDiffs -> [price : Prices, quantity : Qtys]]

\* The main generator replays from 0; the other one is created so that the
\* latest snapshot is its anchor.
InitVenue ==
    /\ \E updates \in VenueUpdates, lost \in 0..(MaxDiffs - 1) :
         /\ diff_table = Stamped(VenueDiffs(updates, lost))
         /\ \E ids \in UNION { [1..k -> 0..MaxDiffs] : k \in 1..MaxSnapshots } :
              /\ \A k \in 1..(Len(ids) - 1) : ids[k] <= ids[k + 1]
              /\ ids[Len(ids)] > 0
              /\ snapshot_table = Stamped([k \in 1..Len(ids) |-> VenueSnapshot(updates, ids[k])])
    /\ start_update_id = 0
    /\ full = [i \in Gens |->
                 IF i = "main"
                 THEN NewGenerator("created", start_update_id, 0)
                 ELSE NewGenerator("created", Last(snapshot_table).last_update_id - 1, 0)]
    /\ partial = NewGenerator("unused", 0, 0)
    /\ blocks = NoBlocks
    /\ IngesterIdle

NextVenue == \E i \in Gens : orderbook_generator(i)

SpecVenue == InitVenue /\ [][NextVenue]_vars

(***************************************************************************)
(* Data-block discovery.                                                   *)
(***************************************************************************)
\* ORDER BY first_update_id, as an insertion sort.
RECURSIVE InsertByFirst(_, _)
InsertByFirst(sorted, row) ==
    IF Len(sorted) = 0 THEN <<row>>
    ELSE IF row.first_update_id < Head(sorted).first_update_id
         THEN <<row>> \o sorted
         ELSE <<Head(sorted)>> \o InsertByFirst(Tail(sorted), row)

RECURSIVE OrderByFirst(_)
OrderByFirst(rows) ==
    IF Len(rows) = 0 THEN <<>>
    ELSE InsertByFirst(OrderByFirst(SubSeq(rows, 1, Len(rows) - 1)), rows[Len(rows)])

\* SELECT first_update_id, final_update_id ... WHERE first_update_id > last_update_id
\* ORDER BY first_update_id
BlockQueryInclusive(table, last_update_id) ==
    OrderByFirst(SelectSeq(table, LAMBDA d : d.first_update_id >= last_update_id))

BlockQuery(table, last_update_id) ==
    OrderByFirst(SelectSeq(table, LAMBDA d : d.first_update_id > last_update_id))

\* `if prev_update_id:` is Python truthiness: neither None nor 0.
Truthy(x) == x # None /\ x # 0

DiscontinuousOffByOne(prev_update_id, first_update_id) == prev_update_id # first_update_id

\* prev_update_id + 1 != first_update_id
Discontinuous(prev_update_id, first_update_id) == prev_update_id + 1 # first_update_id

BreakScanKeepingSize(b) == [b EXCEPT !.ending_update_id = b.prev_update_id]

\* self.ending_update_id = prev_update_id; self.size -= 1; break
BreakScan(b) == [b EXCEPT !.ending_update_id = b.prev_update_id, !.size = @ - 1]

\* The for loop of DataBlock.__init__ from row i on, with its else clause.
RECURSIVE ScanRows(_, _, _)
ScanRows(rows, i, b) ==
    IF i > Len(rows)
    THEN [b EXCEPT !.ending_update_id = b.prev_update_id]
    ELSE LET c == [b EXCEPT !.size = @ + 1]
         IN  IF Truthy(c.prev_update_id)
             THEN IF Discontinuous(c.prev_update_id, rows[i].first_update_id)
                  THEN BreakScan(c)
                  ELSE ScanRows(rows, i + 1,
                                [c EXCEPT !.prev_update_id = rows[i].final_update_id])
             ELSE ScanRows(rows, i + 1,
                           [c EXCEPT !.prev_update_id = rows[i].final_update_id,
                                     !.beginning_update_id = rows[i].first_update_id])

\* SELECT last_update_id FROM depthsnapshot ... ORDER BY timestamp
get_snapshots_update_ids(snapshots) == [i \in 1..Len(snapshots) |-> snapshots[i].last_update_id]

\* DataBlock(symbol, last_update_id): attributes the constructor leaves unset are
\* None (ids) or the empty list.
DataBlock(diffs, snapshots, last_update_id) ==
    LET b == ScanRows(BlockQuery(diffs, last_update_id), 1,
                      [size |-> 0, prev_update_id |-> None,
                       beginning_update_id |-> None, ending_update_id |-> None,
                       block_snapshot_ids |-> <<>>])
    IN  IF b.ending_update_id = None THEN b
        ELSE [b EXCEPT !.block_snapshot_ids =
                 SelectSeq(get_snapshots_update_ids(snapshots),
                           LAMBDA id : /\ b.beginning_update_id <= id + 1
                                       /\ id + 1 <= b.ending_update_id)]

\* get_all_data_blocks up to its loop: the first block.
get_all_data_blocks_call ==
    /\ blocks.pc = "idle"
    /\ \E last_update_id \in 0..2 :
           blocks' = [pc |-> "loop", last_update_id |-> last_update_id,
                      after |-> last_update_id, datablocks |-> <<>>,
                      cur_block |-> DataBlock(diff_table, snapshot_table, last_update_id)]
    /\ UNCHANGED <<snapshot_table, diff_table, start_update_id, full, partial>>
    /\ UNCHANGED ingester

\* One test of `while cur_block.size != 0` and the iteration or return after it.
get_all_data_blocks_loop ==
    /\ blocks.pc = "loop"
    /\ IF blocks.cur_block.size # 0
       THEN blocks' = [blocks EXCEPT
                !.datablocks = Append(@, blocks.cur_block),
                !.after = blocks.cur_block.ending_update_id,
                !.cur_block = DataBlock(diff_table, snapshot_table,
                                        blocks.cur_block.ending_update_id)]
       ELSE blocks' = [blocks EXCEPT !.pc = "returned"]
    /\ UNCHANGED <<snapshot_table, diff_table, start_update_id, full, partial>>
    /\ UNCHANGED ingester

BlockDiffTables ==
    { [i \in 1..Len(r) |-> DiffRow(r[i][1], r[i][2], <<>>, <<>>, <<>>, <<>>)] :
        r \in UNION { IdRanges(n) : n \in 0..(MaxDiffs + 1) } }

InitBlocks ==
    /\ diff_table \in { Stamped(t) : t \in BlockDiffTables }
    /\ snapshot_table \in { Stamped(t) : t \in { u \in IdSnapshotTables : Len(u) <= 1 } }
    /\ start_update_id = 0
    /\ full = [i \in Gens |-> NewGenerator("unused", 0, 0)]
    /\ partial = NewGenerator("unused", 0, 0)
    /\ blocks = [pc |-> "idle"]
    /\ IngesterIdle

NextBlocks == get_all_data_blocks_call \/ get_all_data_blocks_loop

SpecBlocks == InitBlocks /\ [][NextBlocks]_vars

(***************************************************************************)
(* Replay of one data block: get_all_data_blocks has returned, and the     *)
(* caller takes the partial book generator of one of the blocks and runs   *)
(* it.  Snapshots are stored in the order the venue produced them, so      *)
(* their ids do not decrease along the table.                              *)
(***************************************************************************)
\* DataBlock.fetch_partial_book of the k-th block.
fetch_partial_book(k) ==
    /\ blocks.pc = "returned"
    /\ partial.pc = "unused"
    /\ k \in 1..Len(blocks.datablocks)
    /\ partial' = NewGenerator("created", blocks.datablocks[k].beginning_update_id - 1,
                               MaxLevel)
    /\ UNCHANGED <<snapshot_table, diff_table, start_update_id, full, blocks>>
    /\ UNCHANGED ingester

OrderedSnapshotTables ==
    { t \in IdSnapshotTables :
        \A i \in 1..(Len(t) - 1) : t[i].last_update_id <= t[i + 1].last_update_id }

InitFetch ==
    /\ diff_table \in { Stamped(t) : t \in { u \in BlockDiffTables : Len(u) <= MaxDiffs } }
    /\ snapshot_table \in { Stamped(t) : t \in OrderedSnapshotTables }
    /\ start_update_id = 0
    /\ full = [i \in Gens |-> NewGenerator("unused", 0, 0)]
    /\ partial = NewGenerator("unused", 0, 0)
    /\ blocks = [pc |-> "idle"]
    /\ IngesterIdle

NextFetch ==
    \/ get_all_data_blocks_call
    \/ get_all_data_blocks_loop
    \/ \E k \in 1..MaxDiffs : fetch_partial_book(k)
    \/ partial_orderbook_generator

SpecFetch == InitFetch /\ [][NextFetch]_vars

(***************************************************************************)
(* get_all_data_blocks on any diff table whose rows have                   *)
(* first_update_id <= final_update_id: the rows may overlap, repeat, and   *)
(* stand in any order of insertion.  The call runs to its end once it has  *)
(* started, so the loop is weakly fair.                                    *)
(***************************************************************************)
MaxId == 3

RangeDiffTables ==
    { [i \in 1..Len(r) |-> DiffRow(r[i][1], r[i][2], <<>>, <<>>, <<>>, <<>>)] :
        r \in SeqsUpTo({ p \in (1..MaxId) \X (1..MaxId) : p[1] <= p[2] }, MaxDiffs) }

InitRanges ==
    /\ diff_table \in { Stamped(t) : t \in RangeDiffTables }
    /\ snapshot_table \in { Stamped(t) : t \in { u \in IdSnapshotTables : Len(u) <= 1 } }
    /\ start_update_id = 0
    /\ full = [i \in Gens |-> NewGenerator("unused", 0, 0)]
    /\ partial = NewGenerator("unused", 0, 0)
    /\ blocks = [pc |-> "idle"]
    /\ IngesterIdle

SpecRanges == InitRanges /\ [][NextBlocks]_vars /\ WF_vars(NextBlocks)

(***************************************************************************)
(* Vocabulary of the properties.                                           *)
(***************************************************************************)
Main == full["main"]

Max(S) == CHOOSE x \in S : \A y \in S : y <= x

\* The quantity a pair of parallel lists carries for price p (its last entry
\* for p), None when p is not listed.
ListedQty(price, quantity, p) ==
    LET idx == { i \in 1..Min(Len(price), Len(quantity)) : price[i] = p }
    IN  IF idx = {} THEN None ELSE quantity[Max(idx)]

\* The quantity a book holds at price p, None when p is not a key.
LevelOf(book, p) == IF p \in DOMAIN book THEN book[p] ELSE None

\* A level after a diff that lists it with quantity `listed` (None: not listed).
AfterDiff(level, listed) ==
    IF listed = None THEN level ELSE IF listed = 0 THEN None ELSE listed

\* The diff stream a generator reads once it is anchored.
StreamOf(g) == diff_depth_stream_generator(diff_table, g.last_update_id)

Anchored(g) == g.pc \in {"suspended", "returned", "raised"} /\ Len(g.yielded) > 0

Contiguous(stream, k) ==
    \A i \in 1..(k - 1) : stream[i].final_update_id + 1 = stream[i + 1].first_update_id

\* Length of the maximal contiguous prefix of a stream.
ContiguousPrefixLen(stream) ==
    Max({ k \in 0..Len(stream) : Contiguous(stream, k) })

(***************************************************************************)
(* C1.  In both replay generators a diff whose first_update_id differs     *)
(* from the previously applied diff's final_update_id + 1 ends the         *)
(* generator cleanly: no error, no state for that diff or any later one,   *)
(* the states yielded before stay as they were; so the diff-derived yields *)
(* are exactly the maximal contiguous prefix of the streamed diffs.        *)
(***************************************************************************)
GapStop(g) ==
    Anchored(g) =>
        LET n == ContiguousPrefixLen(StreamOf(g))
        IN  /\ g.pc # "raised"
            /\ Len(g.yielded) - 1 <= n
            /\ \A j \in 2..Len(g.yielded) :
                   /\ g.rows[j] = j - 1
                   /\ g.yielded[j].last_update_id = StreamOf(g)[j - 1].final_update_id
            /\ g.pc = "returned" => Len(g.yielded) - 1 = n

YieldsKept(g, h) ==
    /\ Len(h.yielded) >= Len(g.yielded)
    /\ SubSeq(h.yielded, 1, Len(g.yielded)) = g.yielded

C1_GapEndsGenerator ==
    /\ [](GapStop(Main) /\ GapStop(partial))
    /\ [][YieldsKept(Main, full'["main"]) /\ YieldsKept(partial, partial')]_vars

\* Both generators stopped at a gap after one diff, with later rows left unread.
C1_Witness ==
    /\ Main.pc = "returned" /\ partial.pc = "returned"
    /\ Len(Main.yielded) = 2 /\ Len(partial.yielded) = 2
    /\ Len(StreamOf(Main)) = 3
    /\ StreamOf(Main)[1].final_update_id + 1 # StreamOf(Main)[2].first_update_id

(***************************************************************************)
(* C2.  On the first diff after the anchor, if anchor.last_update_id + 1   *)
(* is below first_update_id or above final_update_id, the generator raises *)
(* ValueError and yields no state for that diff.                           *)
(***************************************************************************)
FirstDiffMalformed(g) ==
    /\ Anchored(g)
    /\ g.consumed >= 1
    /\ \/ g.last_update_id + 1 < StreamOf(g)[1].first_update_id
       \/ g.last_update_id + 1 > StreamOf(g)[1].final_update_id

C2_AnchorSanityRaises ==
    \A g \in {Main, partial} :
        FirstDiffMalformed(g) => g.pc = "raised" /\ Len(g.yielded) = 1

(***************************************************************************)
(* C3.  When the next pending snapshot S satisfies                         *)
(* first_update_id <= S.last_update_id + 1 <= final_update_id for the diff *)
(* being processed, the state yielded for that diff is S's levels with the *)
(* diff applied (nothing of the earlier book survives) and carries the     *)
(* diff's final_update_id.                                                 *)
(***************************************************************************)
ReanchorDue(g) ==
    /\ g.pc = "suspended"
    /\ g.consumed < Len(StreamOf(g))
    /\ Len(g.next_snapshot) > 0
    /\ LET row == StreamOf(g)[g.consumed + 1]
       IN  /\ g.consumed > 0 => StreamOf(g)[g.consumed].final_update_id + 1 = row.first_update_id
           /\ row.first_update_id <= g.next_snapshot[1].last_update_id + 1
           /\ g.next_snapshot[1].last_update_id + 1 <= row.final_update_id

SnapshotPlusDiff(book, S, row) ==
    /\ \A p \in Prices \cup DOMAIN book.bids :
           LevelOf(book.bids, p) =
               AfterDiff(ListedQty(S.bids_price, S.bids_quantity, p),
                         ListedQty(row.bids_price, row.bids_quantity, p))
    /\ \A p \in Prices \cup DOMAIN book.asks :
           LevelOf(book.asks, p) =
               AfterDiff(ListedQty(S.asks_price, S.asks_quantity, p),
                         ListedQty(row.asks_price, row.asks_quantity, p))
    /\ book.last_update_id = row.final_update_id

C3_ReanchorReplaces ==
    [][ (ReanchorDue(Main) /\ full'["main"] # Main) =>
            /\ Len(full'["main"].yielded) = Len(Main.yielded) + 1
            /\ SnapshotPlusDiff(Last(full'["main"].yielded),
                                Main.next_snapshot[1],
                                StreamOf(Main)[Main.consumed + 1]) ]_vars

\* A re-anchoring pass dropped a bid level of the anchor that neither the
\* snapshot nor the diff lists.
C3_Witness ==
    /\ Main.pc = "suspended" /\ Main.reanchored
    /\ \E p \in Prices :
           /\ ListedQty(snapshot_table[1].bids_price, snapshot_table[1].bids_quantity, p) # None
           /\ \A i \in 1..Len(diff_table) :
                  ListedQty(diff_table[i].bids_price, diff_table[i].bids_quantity, p) = None
           /\ p \notin DOMAIN Last(Main.yielded).bids
           /\ DOMAIN Last(Main.yielded).bids # {}

(***************************************************************************)
(* C4.  Zero-quantity removal.  For every yielded book B, side and price   *)
(* p: if the most recent replayed diff listing p carried quantity 0, p is  *)
(* not a key of B; if it carried q > 0, B maps p to q.                     *)
(* As stated this ignores re-anchoring, which replaces the book by the     *)
(* snapshot's levels; it holds when no later diff re-anchored.             *)
(***************************************************************************)
\* Stream rows among the first n that list p on a side.
Listing(g, n, price, quantity, p) ==
    { i \in 1..n : ListedQty(StreamOf(g)[i][price], StreamOf(g)[i][quantity], p) # None }

\* Yield j (built from stream row j - 1) shows, on one side, what the most
\* recent diff listing p says; with `settled`, only when no later pass re-anchored.
FollowsLastListing(g, j, book, price, quantity, p, settled) ==
    LET listing == Listing(g, j - 1, price, quantity, p)
        i == Max(listing)
    IN  (/\ listing # {}
         /\ settled => \A k \in (i + 1)..(j - 1) : ~g.hits[k + 1])
        => LevelOf(book, p) =
               AfterDiff(None, ListedQty(StreamOf(g)[i][price], StreamOf(g)[i][quantity], p))

ZeroQtyRemoval(g, settled) ==
    \A j \in 2..Len(g.yielded) : \A p \in Prices :
        /\ FollowsLastListing(g, j, g.yielded[j].bids, "bids_price", "bids_quantity", p, settled)
        /\ FollowsLastListing(g, j, g.yielded[j].asks, "asks_price", "asks_quantity", p, settled)

\* The claim as stated.
C4_ZeroQtyRemoval == ZeroQtyRemoval(Main, FALSE)

\* The claim restricted to diffs after which no pass re-anchored.
C4_ZeroQtyRemovalSettled == ZeroQtyRemoval(Main, TRUE)

\* A yielded book lacks a bid level that an earlier diff, not the latest one,
\* removed, with no re-anchoring since.
C4_Witness ==
    /\ Len(Main.yielded) = 3
    /\ ~Main.hits[3]
    /\ \E p \in Prices :
           /\ ListedQty(StreamOf(Main)[1].bids_price, StreamOf(Main)[1].bids_quantity, p) = 0
           /\ ListedQty(StreamOf(Main)[2].bids_price, StreamOf(Main)[2].bids_quantity, p) = None
           /\ p \in DOMAIN Main.yielded[1].bids
           /\ p \notin DOMAIN Main.yielded[3].bids

(***************************************************************************)
(* The documented layout of PartialBook.book: rank by rank, the ask pair   *)
(* and then the bid pair, asks from the lowest price up and bids from the  *)
(* highest price down, for the first k ranks.                              *)
(***************************************************************************)
\* The i-th highest key of a book.
NthHighest(book, i) ==
    CHOOSE p \in DOMAIN book : Cardinality({ r \in DOMAIN book : r > p }) = i - 1

\* The i-th lowest key of a book.
NthLowest(book, i) ==
    CHOOSE p \in DOMAIN book : Cardinality({ r \in DOMAIN book : r < p }) = i - 1

RECURSIVE AskFirstFrom(_, _, _, _)
AskFirstFrom(bids, asks, rank, k) ==
    IF rank > k THEN <<>>
    ELSE (IF rank <= Cardinality(DOMAIN asks)
          THEN <<NthLowest(asks, rank), asks[NthLowest(asks, rank)]>> ELSE <<>>)
         \o (IF rank <= Cardinality(DOMAIN bids)
             THEN <<NthHighest(bids, rank), bids[NthHighest(bids, rank)]>> ELSE <<>>)
         \o AskFirstFrom(bids, asks, rank + 1, k)

AskFirstLayout(bids, asks, k) == AskFirstFrom(bids, asks, 1, k)

Finished(g) == g.pc \in {"returned", "raised"}

(***************************************************************************)
(* C6.  Partial/Full agreement: on the same start_update_id and store the  *)
(* two generators yield equally many states with the same last_update_id   *)
(* at each position, and each PartialBook.book is the top-k bids and top-k *)
(* asks of the FullBook at that position in the partial interleaving.      *)
(***************************************************************************)
C6_PartialFullAgreement ==
    /\ \A j \in 1..Min(Len(Main.yielded), Len(partial.yielded)) :
           /\ partial.yielded[j].last_update_id = Main.yielded[j].last_update_id
           /\ partial.yielded[j].book =
                  AskFirstLayout(Main.yielded[j].bids, Main.yielded[j].asks, partial.level)
    /\ (Finished(Main) /\ Finished(partial)) => Len(Main.yielded) = Len(partial.yielded)

(***************************************************************************)
(* C7.  Every PartialBook of level k is [ask_1_price, ask_1_qty,           *)
(* bid_1_price, bid_1_qty, ..., bid_k_qty] over the internal book: within  *)
(* each rank the ask pair comes before the bid pair.                       *)
(***************************************************************************)
C7_AskBeforeBid ==
    (/\ partial.pc = "suspended"
     /\ Cardinality(DOMAIN partial.bids_book) >= partial.level
     /\ Cardinality(DOMAIN partial.asks_book) >= partial.level)
    => Last(partial.yielded).book =
           AskFirstLayout(partial.bids_book, partial.asks_book, partial.level)

(***************************************************************************)
(* C8.  Replay anchoring: with no snapshot of last_update_id above         *)
(* start_update_id the generator yields nothing; otherwise its first       *)
(* yielded state is the earliest-by-timestamp such snapshot (timestamp,    *)
(* last_update_id, bids, asks), before any diff is applied.                *)
(***************************************************************************)
Qualifying == { i \in 1..Len(snapshot_table) :
                   snapshot_table[i].last_update_id > start_update_id }

EarliestQualifying ==
    snapshot_table[CHOOSE i \in Qualifying :
                       \A j \in Qualifying :
                           snapshot_table[i].timestamp <= snapshot_table[j].timestamp]

IsSnapshot(book, s) ==
    /\ book.timestamp = s.timestamp
    /\ book.last_update_id = s.last_update_id
    /\ \A p \in Prices \cup DOMAIN book.bids :
           LevelOf(book.bids, p) = ListedQty(s.bids_price, s.bids_quantity, p)
    /\ \A p \in Prices \cup DOMAIN book.asks :
           LevelOf(book.asks, p) = ListedQty(s.asks_price, s.asks_quantity, p)

C8_Anchoring ==
    /\ Main.pc # "created" =>
           IF Qualifying = {}
           THEN Main.yielded = <<>> /\ Main.pc = "returned"
           ELSE /\ Len(Main.yielded) >= 1
                /\ Main.rows[1] = 0
                /\ IsSnapshot(Main.yielded[1], EarliestQualifying)
    /\ partial.pc # "created" =>
           IF Qualifying = {}
           THEN partial.yielded = <<>> /\ partial.pc = "returned"
           ELSE /\ Len(partial.yielded) >= 1
                /\ partial.rows[1] = 0
                /\ partial.yielded[1].timestamp = EarliestQualifying.timestamp
                /\ partial.yielded[1].last_update_id = EarliestQualifying.last_update_id

\* The anchor is not the first row of the table: an earlier snapshot does not
\* exceed start_update_id.
C8_Witness ==
    /\ Len(Main.yielded) >= 1
    /\ Len(snapshot_table) = 2
    /\ snapshot_table[1].last_update_id <= start_update_id
    /\ Main.yielded[1].timestamp = 2

(***************************************************************************)
(* Vocabulary of the data-block properties.                                *)
(***************************************************************************)
\* The diff rows with first_update_id > after, in first_update_id order: the
\* i-th is the row with i - 1 such rows below it.
RowsAfter(after) ==
    LET S == { i \in 1..Len(diff_table) : diff_table[i].first_update_id > after }
    IN  [n \in 1..Cardinality(S) |->
            diff_table[CHOOSE i \in S :
                Cardinality({ j \in S : diff_table[j].first_update_id
                                          < diff_table[i].first_update_id }) = n - 1]]

Constructing == blocks.pc \in {"loop", "returned"}

(***************************************************************************)
(* C9.  DataBlock(symbol, after_update_id) covers the maximal continuous   *)
(* prefix of the rows with first_update_id > after_update_id in            *)
(* first_update_id order: beginning_update_id is the first row's           *)
(* first_update_id, ending_update_id the final_update_id of the last row   *)
(* of the prefix, size its length; with no row, size = 0 and               *)
(* ending_update_id is null.                                               *)
(***************************************************************************)
C9_DataBlockPrefix ==
    Constructing =>
        LET rows == RowsAfter(blocks.after)
            n == ContiguousPrefixLen(rows)
            b == blocks.cur_block
        IN  /\ b.size = n
            /\ IF Len(rows) = 0
               THEN b.size = 0 /\ b.ending_update_id = None
               ELSE /\ b.beginning_update_id = rows[1].first_update_id
                    /\ b.ending_update_id = rows[n].final_update_id

\* A block that stops at a continuity violation after two rows.
C9_Witness ==
    /\ Constructing
    /\ blocks.cur_block.size = 2
    /\ Len(RowsAfter(blocks.after)) > 2
    /\ blocks.after > 0

(***************************************************************************)
(* C10.  get_all_data_blocks(symbol, start) partitions the rows with       *)
(* first_update_id > start: each row lies in exactly one block, the sizes  *)
(* add up to the number of rows, each block is gap-free, and the blocks    *)
(* come in increasing update-id order.                                     *)
(***************************************************************************)
InBlock(row, b) ==
    /\ b.beginning_update_id <= row.first_update_id
    /\ row.final_update_id <= b.ending_update_id

RECURSIVE SumSizes(_)
SumSizes(bs) == IF Len(bs) = 0 THEN 0 ELSE Head(bs).size + SumSizes(Tail(bs))

GapFree(b, rows) ==
    LET mine == SelectSeq(rows, LAMBDA r : InBlock(r, b))
    IN  /\ Len(mine) = b.size
        /\ Len(mine) > 0
        /\ mine[1].first_update_id = b.beginning_update_id
        /\ mine[Len(mine)].final_update_id = b.ending_update_id
        /\ Contiguous(mine, Len(mine))

SameBooksAt(g, h) ==
    \A i \in 1..Len(g.yielded), j \in 1..Len(h.yielded) :
        g.yielded[i].last_update_id = h.yielded[j].last_update_id =>
            /\ g.yielded[i].bids = h.yielded[j].bids
            /\ g.yielded[i].asks = h.yielded[j].asks

C5_ReplayIdempotence == SameBooksAt(Main, full["restart"])

\* The same, for replays whose first diff passes the anchor sanity test.
C5_IdempotenceOnSaneAnchors ==
    (~FirstDiffMalformed(Main) /\ ~FirstDiffMalformed(full["restart"]))
        => SameBooksAt(Main, full["restart"])

(***************************************************************************)
(* The ingester (src/main.py, src/model.py).                               *)
(*                                                                         *)
(* One event loop runs setup, one handle_depth_stream task per configured  *)
(* symbol and the get_full_depth tasks they create.  A task runs from one  *)
(* await to the next without interruption, so each action below is the     *)
(* code between two awaits.  Every call of the store (Database.insert) and *)
(* every connection attempt either succeeds or raises; which one happens   *)
(* is an input of the action.  A string is the sequence of its characters. *)
(* The venue echoes in each frame the symbol of the stream it was asked    *)
(* for, and time() grows between two awaits on the network.                *)
(***************************************************************************)
MaxTime == 3

MaxSessions == 2

\* The longest time between two events of the network.
MaxSilence == 2

dispatcher_buffer_size == 2

full_fetch_interval == 2

BTCUSDT == <<"B", "T", "C", "U", "S", "D", "T">>

BTCUSD_PERP == <<"B", "T", "C", "U", "S", "D", "_", "P", "E", "R", "P">>

USD_ == <<"U", "S", "D", "_">>

COIN_ == <<"C", "O", "I", "N", "_">>

\* class AssetType(Enum): a member is modelled by its value.
SPOT == <<>>

USD_M == <<"U", "S", "D", "_", "F", "_">>

COIN_M == <<"C", "O", "I", "N", "_", "F", "_">>

\* The values CONFIG.symbols takes: one symbol of each family, or two symbols.
Configs == { <<BTCUSDT>>, <<USD_ \o BTCUSDT>>, <<COIN_ \o BTCUSD_PERP>> }

PairConfigs ==
    { <<BTCUSDT, USD_ \o BTCUSDT>>,
      <<USD_ \o BTCUSDT, COIN_ \o BTCUSD_PERP>>,
      <<COIN_ \o BTCUSD_PERP, BTCUSDT>> }

\* Python: sub in s
StrIn(sub, s) ==
    \E k \in 0..(Len(s) - Len(sub)) : SubSeq(s, k + 1, k + Len(sub)) = sub

\* Python: s[n:]
Slice(s, n) == SubSeq(s, n + 1, Len(s))

INFO == 20

WARNING == 30

\* A message is its fixed text and the value formatted into it.
LoggingMsg(msg, level, payload) == [msg |-> msg, level |-> level, payload |-> payload]

DepthSnapshot(timestamp, last_update_id, symbol) ==
    [timestamp |-> timestamp, last_update_id |-> last_update_id,
     bids_quantity |-> <<>>, bids_price |-> <<>>,
     asks_quantity |-> <<>>, asks_price |-> <<>>, symbol |-> symbol]

DiffDepthStream(timestamp, first_update_id, final_update_id, b, a, symbol) ==
    [timestamp |-> timestamp,
     first_update_id |-> first_update_id, final_update_id |-> final_update_id,
     bids_quantity |-> [k \in 1..Len(b) |-> b[k][2]],
     bids_price |-> [k \in 1..Len(b) |-> b[k][1]],
     asks_quantity |-> [k \in 1..Len(a) |-> a[k][2]],
     asks_price |-> [k \in 1..Len(a) |-> a[k][1]],
     symbol |-> symbol]

\* Database.insert(rows) on one table, when it does not raise.
db_insert_dropping_first(table, rows) == table \o Tail(rows)

db_insert(table, rows) == table \o rows

\* Logger.log_msg when the store takes the record; when it does not, the
\* exception of Database.insert leaves log_msg (there is no handler).
log_msg(db, msg, level, payload) ==
    [db EXCEPT !.loggingmsg = db_insert(@, <<LoggingMsg(msg, level, payload)>>)]

\* The exception exc leaves the task from the function named by where.
Raise(s, exc, where) == [s EXCEPT !.pc = "raised", !.raised = exc, !.raised_in = where]

\* A handle_depth_stream task before it first runs.
NewSession(symbol, asset_type) ==
    [pc |-> "created", symbol |-> symbol, asset_type |-> asset_type,
     symbol_full |-> <<>>, symbol_full_bound |-> FALSE,
     next_full_fetch |-> 0, prev_final_update_id |-> None,
     raised |-> "none", raised_in |-> "none",
     venue_u |-> 0,            \* the last update id the venue sent on the stream
     last |-> "none",          \* the last event the task handled
     last_at |-> 0,            \* time() when it handled it
     last_final |-> None,      \* final_update_id of the last frame it processed
     gap |-> FALSE,            \* whether that frame did not follow the one before
     reset_at |-> 0,           \* time() when next_full_fetch was last set to now
     conn_frames |-> 0,        \* frames parsed since then
     conn_fetches |-> 0,       \* get_full_depth tasks created since then
     schedule |-> <<>>]        \* when each frame since then passed line 133,
                               \* and whether it created a task

\* setup, lines 171-201: the task created for one configured symbol.
SessionFor(symbol) ==
    IF StrIn(USD_, symbol) THEN NewSession(Slice(symbol, 4), USD_M)
    ELSE IF StrIn(COIN_, symbol) THEN NewSession(Slice(symbol, 5), COIN_M)
    ELSE NewSession(symbol, SPOT)

setup ==
    /\ history.setup = "none"
    /\ \E logOk \in BOOLEAN :
         IF logOk
         THEN /\ database' = log_msg(database, [text |-> "Starting event loop...", arg |-> <<>>], INFO, <<>>)
              /\ sessions' = [i \in 1..Len(symbols) |-> SessionFor(symbols[i])]
              /\ history' = [history EXCEPT !.setup = "done"]
         ELSE /\ history' = [history EXCEPT !.setup = "raised"]
              /\ UNCHANGED <<database, sessions>>
    /\ UNCHANGED <<replay, symbols, fetch_tasks, dispatcher, clock>>

\* handle_depth_stream, lines 94-100: the first run of the task, up to the
\* await of ws_connect.
handle_depth_stream_start(i) ==
    /\ i \in 1..Len(sessions)
    /\ sessions[i].pc = "created"
    /\ \E logOk \in BOOLEAN :
         LET s == [sessions[i] EXCEPT !.next_full_fetch = clock, !.reset_at = clock] IN
         IF logOk
         THEN /\ database' = log_msg(database,
                                     [text |-> "Connecting to stream",
                                      arg |-> s.asset_type \o s.symbol],
                                     INFO, s.symbol)
              /\ sessions' = [sessions EXCEPT ![i] =
                                [s EXCEPT !.pc = "connecting",
                                          !.prev_final_update_id = None]]
         ELSE /\ sessions' = [sessions EXCEPT ![i] =
                                Raise(s, "DatabaseException", "log_msg")]
              /\ UNCHANGED database
    /\ UNCHANGED <<replay, symbols, fetch_tasks, dispatcher, clock, history>>

\* session.ws_connect, line 100: the connection opens, or the client's
\* exception leaves the task.
ws_connect(i) ==
    /\ i \in 1..Len(sessions)
    /\ sessions[i].pc = "connecting"
    /\ \E ok \in BOOLEAN :
         sessions' = [sessions EXCEPT ![i] =
            IF ok
            THEN [@ EXCEPT !.pc = "connected", !.last = "connect", !.last_at = clock]
            ELSE Raise([@ EXCEPT !.last = "connect_error", !.last_at = clock],
                       "ClientError", "ws_connect")]
    /\ UNCHANGED <<replay, symbols, fetch_tasks, dispatcher, database, clock, history>>

\* Lines 111-116.
UpdateIdsFromU(asset_type, data_raw) == <<data_raw.U, data_raw.u>>

UpdateIds(asset_type, data_raw) ==
    IF asset_type = SPOT
    THEN <<data_raw.U, data_raw.u>>
    ELSE <<data_raw.pu + 1, data_raw.u>>

\* Line 124.
FetchDue(next_full_fetch, now) == next_full_fetch < now

\* Line 130.
NextDueFromNow(next_full_fetch, now) == now + full_fetch_interval

NextDue(next_full_fetch, now) == next_full_fetch + full_fetch_interval

\* Lines 134-137.
LobDropped(prev_final_update_id, first_update_id) ==
    Truthy(prev_final_update_id) /\ prev_final_update_id + 1 # first_update_id

\* DiffDepthStreamDispatcher.insert, line 129.
BufferFullAbove(len) == len > dispatcher_buffer_size

BufferFull(len) == len >= dispatcher_buffer_size

\* DiffDepthStreamDispatcher.insert_to_db.  raised: the exception of
\* log_msg leaves insert_to_db.
insert_to_db(d, db, dbOk, logOk) ==
    IF dbOk
    THEN [dispatcher |-> [d EXCEPT !.buffer = <<>>],
          database |-> [db EXCEPT !.diffdepthstream = db_insert(@, d.buffer)],
          raised |-> FALSE, flush |-> "ok"]
    ELSE IF logOk
    THEN [dispatcher |-> d,
          database |-> log_msg(db, [text |-> "DiffDepthStreamDispatcher error, retrying:",
                                    arg |-> <<Len(d.buffer)>>],
                               WARNING, <<"DatabaseException">>),
          raised |-> FALSE, flush |-> "failed"]
    ELSE [dispatcher |-> d, database |-> db, raised |-> TRUE, flush |-> "failed"]

\* DiffDepthStreamDispatcher.insert.
insert(d, db, row, dbOk, logOk) ==
    LET appended == [d EXCEPT !.buffer = Append(@, row)] IN
    IF BufferFull(Len(appended.buffer))
    THEN insert_to_db(appended, db, dbOk, logOk)
    ELSE [dispatcher |-> appended, database |-> db, raised |-> FALSE, flush |-> "none"]

\* handle_depth_stream, lines 156-161: after the receive loop has ended.
ConnectionClosed(s, db, now, logOk) ==
    IF ~s.symbol_full_bound
    THEN [session |-> Raise(s, "UnboundLocalError", "handle_depth_stream"),
          database |-> db]
    ELSE IF ~logOk
    THEN [session |-> Raise(s, "DatabaseException", "log_msg"), database |-> db]
    ELSE [session |-> [s EXCEPT !.pc = "connecting", !.next_full_fetch = now,
                                !.reset_at = now, !.conn_frames = 0, !.conn_fetches = 0,
                                !.schedule = <<>>],
          database |-> log_msg(db, [text |-> "Connection closed for stream, retrying.",
                                    arg |-> s.symbol_full],
                               INFO, s.symbol)]

\* The frame the venue sends next on the stream of s.  Spot frames carry
\* no pu and follow each other by U; futures frames follow each other by pu
\* and their own ids are not contiguous.  skip: one frame before it was lost.
VenueFrame(s, now, has_pu, skip) ==
    LET pu == s.venue_u + skip
        U  == IF s.asset_type = SPOT THEN pu + 1 ELSE pu + 2
    IN [s |-> s.symbol, E |-> now, U |-> U, u |-> U,
        pu |-> IF has_pu THEN pu ELSE None,
        b |-> << <<MaxPrice, MaxQty>> >>, a |-> <<>>]

\* handle_depth_stream, lines 101-153 (and 156-161 after the break of line
\* 107): the task receives a TEXT frame.
ws_receive_text(i) ==
    /\ i \in 1..Len(sessions)
    /\ sessions[i].pc = "connected"
    /\ \E parsable, has_pu, infoLogOk, dbOk, warnLogOk \in BOOLEAN, skip \in 0..1,
          silence \in 1..MaxSilence :
         /\ clock + silence <= MaxTime
         \* inputs that the run does not read are fixed
         /\ sessions[i].asset_type = SPOT => ~has_pu
         /\ ~parsable => ~has_pu /\ skip = 0 /\ dbOk
         /\ parsable /\ sessions[i].asset_type # SPOT /\ ~has_pu
               => skip = 0 /\ dbOk /\ infoLogOk
         /\ dbOk => warnLogOk
         /\ LET now == clock + silence
                data_raw == VenueFrame(sessions[i], now, has_pu, skip)
                asset_type == sessions[i].asset_type
                unchanged == [database |-> database, dispatcher |-> dispatcher,
                              fetch_tasks |-> fetch_tasks, history |-> history]
                \* lines 103-107
                invalid ==
                    LET s == [sessions[i] EXCEPT !.last = "unparsable", !.last_at = now]
                        closed == ConnectionClosed(s, database, now, infoLogOk)
                    IN [unchanged EXCEPT !.database = closed.database]
                         @@ [session |-> closed.session]
                received == [sessions[i] EXCEPT !.last = "frame", !.last_at = now,
                                                !.venue_u = data_raw.u,
                                                !.conn_frames = @ + 1]
                \* lines 109-122
                ids == UpdateIds(asset_type, data_raw)
                first_update_id == ids[1]
                final_update_id == ids[2]
                symbol_full == asset_type \o data_raw.s
                named == [received EXCEPT !.symbol = data_raw.s,
                                          !.symbol_full = symbol_full,
                                          !.symbol_full_bound = TRUE]
                \* lines 124-133
                due == FetchDue(named.next_full_fetch, now)
                fetching ==
                    IF due
                    THEN [session |-> [named EXCEPT
                                         !.next_full_fetch = NextDue(@, now),
                                         !.conn_fetches = @ + 1,
                                         !.schedule = Append(@, [at |-> now,
                                                                 fetched |-> TRUE])],
                          database |-> log_msg(database,
                                               [text |-> "Fetching full market depth",
                                                arg |-> symbol_full],
                                               INFO, symbol_full),
                          fetch_tasks |-> Append(fetch_tasks,
                                                 [symbol |-> data_raw.s,
                                                  asset_type |-> asset_type,
                                                  stream |-> i])]
                    ELSE [session |-> [named EXCEPT
                                         !.schedule = Append(@, [at |-> now,
                                                                 fetched |-> FALSE])],
                          database |-> database,
                          fetch_tasks |-> fetch_tasks]
                \* lines 134-142
                dropped == LobDropped(named.prev_final_update_id, first_update_id)
                checked ==
                    IF dropped
                    THEN log_msg(fetching.database,
                                 [text |-> "LOB dropped, refetching full market depth",
                                  arg |-> symbol_full],
                                 INFO, symbol_full)
                    ELSE fetching.database
                \* lines 144-153
                row == DiffDepthStream(data_raw.E, first_update_id, final_update_id,
                                       data_raw.b, data_raw.a, symbol_full)
                written == insert(dispatcher, checked, row, dbOk, warnLogOk)
                processed ==
                    [fetching.session EXCEPT
                        !.last_final = final_update_id,
                        !.gap = sessions[i].last_final # None
                                /\ sessions[i].last_final + 1 # first_update_id]
                logged ==
                    [history EXCEPT
                        !.inserted = Append(@, row),
                        !.frames = Append(@, [asset_type |-> asset_type, U |-> data_raw.U,
                                              u |-> data_raw.u, pu |-> data_raw.pu]),
                        !.attempts = IF written.flush = "none" THEN @ ELSE @ + 1,
                        !.failures = IF written.flush = "failed" THEN @ + 1 ELSE @,
                        !.flush = IF written.flush = "none" THEN @ ELSE written.flush,
                        !.insert_raised = @ \/ written.raised]
                result ==
                    IF ~parsable THEN invalid
                    ELSE IF asset_type # SPOT /\ data_raw.pu = None
                    THEN unchanged @@
                         [session |-> Raise(received, "TypeError", "handle_depth_stream")]
                    ELSE IF due /\ ~infoLogOk
                    THEN unchanged @@ [session |-> Raise(named, "DatabaseException", "log_msg")]
                    ELSE IF dropped /\ ~infoLogOk
                    THEN [unchanged EXCEPT !.database = fetching.database,
                                           !.fetch_tasks = fetching.fetch_tasks]
                         @@ [session |-> Raise(fetching.session, "DatabaseException", "log_msg")]
                    ELSE [database |-> written.database,
                          dispatcher |-> written.dispatcher,
                          fetch_tasks |-> fetching.fetch_tasks,
                          history |-> logged,
                          session |-> IF written.raised
                                      THEN Raise(processed, "DatabaseException", "log_msg")
                                      ELSE processed]
            IN /\ sessions' = [sessions EXCEPT ![i] = result.session]
               /\ database' = result.database
               /\ dispatcher' = result.dispatcher
               /\ fetch_tasks' = result.fetch_tasks
               /\ history' = result.history
               /\ clock' = now
    /\ UNCHANGED <<replay, symbols>>

\* handle_depth_stream, lines 101, 154-161: the receive loop ends on a CLOSE
\* frame, or on the ERROR message and the closed socket that follow a
\* transport error.
ws_receive_close(i) ==
    /\ i \in 1..Len(sessions)
    /\ sessions[i].pc = "connected"
    /\ \E kind \in {"close", "error"}, closeLogOk \in BOOLEAN, silence \in 1..MaxSilence :
         /\ clock + silence <= MaxTime
         /\ LET now == clock + silence
                s == [sessions[i] EXCEPT !.last = kind, !.last_at = now]
                closed == ConnectionClosed(s, database, now, closeLogOk)
            IN /\ sessions' = [sessions EXCEPT ![i] = closed.session]
               /\ database' = closed.database
               /\ clock' = now
    /\ UNCHANGED <<replay, symbols, fetch_tasks, dispatcher, history>>

\* get_full_depth: a task created at line 131 runs.  When the request, the
\* parsing or the insert raises, the exception ends this task only.
get_full_depth(k) ==
    /\ k \in 1..Len(fetch_tasks)
    /\ \E ok \in BOOLEAN :
         LET task == fetch_tasks[k]
             snapshot == DepthSnapshot(clock, sessions[task.stream].venue_u,
                                       task.asset_type \o task.symbol)
         IN /\ database' = IF ok
                           THEN [database EXCEPT !.depthsnapshot = db_insert(@, <<snapshot>>)]
                           ELSE database
            /\ history' = IF ok THEN history
                          ELSE [history EXCEPT !.fetch_failures = @ + 1]
    /\ fetch_tasks' = [j \in 1..(Len(fetch_tasks) - 1) |->
                         IF j < k THEN fetch_tasks[j] ELSE fetch_tasks[j + 1]]
    /\ UNCHANGED <<replay, symbols, sessions, dispatcher, clock>>

\* No generator of src/replay.py is running while the ingester writes.
ReplayIdle ==
    /\ snapshot_table = <<>>
    /\ diff_table = <<>>
    /\ start_update_id = 0
    /\ full = [i \in Gens |-> NewGenerator("unused", 0, 0)]
    /\ partial = NewGenerator("unused", 0, 0)
    /\ blocks = NoBlocks

\* main.py, lines 204-209: the tables exist, the objects of setup are new.
InitIngest ==
    /\ ReplayIdle
    /\ symbols \in Configs
    /\ sessions = <<>>
    /\ fetch_tasks = <<>>
    /\ dispatcher = [buffer |-> <<>>]
    /\ database = [diffdepthstream |-> <<>>, depthsnapshot |-> <<>>, loggingmsg |-> <<>>]
    /\ clock = 0
    /\ history = NoHistory

NextIngest ==
    \/ setup
    \/ \E i \in 1..MaxSessions : handle_depth_stream_start(i)
    \/ \E i \in 1..MaxSessions : ws_connect(i)
    \/ \E i \in 1..MaxSessions : ws_receive_text(i)
    \/ \E i \in 1..MaxSessions : ws_receive_close(i)
    \/ \E k \in 1..MaxTime : get_full_depth(k)

SpecIngest == InitIngest /\ [][NextIngest]_vars

(***************************************************************************)
(* The batching writer under two sessions.  DiffDepthStreamDispatcher is   *)
(* called at line 144 of handle_depth_stream and nowhere else, so this     *)
(* specification starts where setup has run, both tasks have logged and    *)
(* connected, and follows the frames the two connections deliver.          *)
(***************************************************************************)
Connected(s) == [s EXCEPT !.pc = "connected", !.last = "connect"]

InitWriter ==
    /\ ReplayIdle
    /\ symbols \in PairConfigs
    /\ sessions = [i \in 1..Len(symbols) |-> Connected(SessionFor(symbols[i]))]
    /\ fetch_tasks = <<>>
    /\ dispatcher = [buffer |-> <<>>]
    /\ database =
         [diffdepthstream |-> <<>>, depthsnapshot |-> <<>>,
          loggingmsg |->
            <<LoggingMsg([text |-> "Starting event loop...", arg |-> <<>>], INFO, <<>>)>>
            \o [i \in 1..Len(symbols) |->
                  LoggingMsg([text |-> "Connecting to stream",
                              arg |-> sessions[i].asset_type \o sessions[i].symbol],
                             INFO, sessions[i].symbol)]]
    /\ clock = 0
    /\ history = [NoHistory EXCEPT !.setup = "done"]

NextWriter == \E i \in 1..MaxSessions : ws_receive_text(i)

SpecWriter == InitWriter /\ [][NextWriter]_vars

(***************************************************************************)
(* The snapshot schedule of one session: the session connected some time   *)
(* ago (line 94 set next_full_fetch to the time() of then) and the venue   *)
(* has sent nothing since.  The clock reads 0 at the first state, so the   *)
(* time of the connection is negative.                                     *)
(***************************************************************************)
MaxLag == 4

ConnectedAt(s, then) ==
    [Connected(s) EXCEPT !.next_full_fetch = then, !.reset_at = then, !.last_at = then]

InitSchedule ==
    /\ ReplayIdle
    /\ symbols \in Configs
    /\ \E lag \in 0..MaxLag :
         sessions = <<ConnectedAt(SessionFor(symbols[1]), 0 - lag)>>
    /\ fetch_tasks = <<>>
    /\ dispatcher = [buffer |-> <<>>]
    /\ database =
         [diffdepthstream |-> <<>>, depthsnapshot |-> <<>>,
          loggingmsg |->
            <<LoggingMsg([text |-> "Starting event loop...", arg |-> <<>>], INFO, <<>>),
              LoggingMsg([text |-> "Connecting to stream",
                          arg |-> sessions[1].asset_type \o sessions[1].symbol],
                         INFO, sessions[1].symbol)>>]
    /\ clock = 0
    /\ history = [NoHistory EXCEPT !.setup = "done"]

NextSchedule ==
    \/ ws_connect(1)
    \/ ws_receive_text(1)
    \/ ws_receive_close(1)
    \/ \E k \in 1..MaxTime : get_full_depth(k)

SpecSchedule == InitSchedule /\ [][NextSchedule]_vars

(***************************************************************************)
(* Vocabulary of the ingester's properties.                                *)
(***************************************************************************)
Tasks == 1..Len(sessions)

Written == database.diffdepthstream

Log == database.loggingmsg

HasPrefix(prefix, s) ==
    Len(s) >= Len(prefix) /\ SubSeq(s, 1, Len(prefix)) = prefix

\* The log holds a record with this text about this symbol.
LogHolds(text, symbol_full) ==
    \E k \in 1..Len(Log) : Log[k].msg.text = text /\ Log[k].msg.arg = symbol_full

\* The task has just run the frame handler to its end.
FrameProcessed(s) == s.pc = "connected" /\ s.last = "frame" /\ s.last_final # None

(***************************************************************************)
(* C11: within one stream session, after each processed frame              *)
(* prev_final_update_id holds that frame's final_update_id, and a frame    *)
(* whose first_update_id is not the previous frame's final_update_id + 1   *)
(* leaves the INFO record "LOB dropped for <symbol>, refetching full       *)
(* market depth" in the log (its diff is handed to the writer all the      *)
(* same).                                                                  *)
(***************************************************************************)
C11_GapDetection ==
    \A i \in Tasks :
        FrameProcessed(sessions[i]) =>
            /\ sessions[i].prev_final_update_id = sessions[i].last_final
            /\ sessions[i].gap =>
                 LogHolds("LOB dropped, refetching full market depth",
                          sessions[i].symbol_full)

(***************************************************************************)
(* C12: a stream session never terminates on its own: whatever frames,     *)
(* connection errors and store failures it meets, no exception leaves the  *)
(* task.                                                                   *)
(***************************************************************************)
C12_SessionNeverTerminates ==
    \A i \in Tasks : sessions[i].pc # "raised"

(***************************************************************************)
(* C13: the snapshot due time is now when the session opens, it is reset   *)
(* to now after every CLOSE frame, frame-parse failure or transport error  *)
(* (after which the session is connecting again), and the first frame of   *)
(* every connection schedules a snapshot fetch.                            *)
(***************************************************************************)
C13_SnapshotOnReconnect ==
    \A i \in Tasks :
        /\ sessions[i].pc = "connecting" /\ sessions[i].last = "none"
              => sessions[i].next_full_fetch = clock
        /\ sessions[i].last \in {"close", "error", "unparsable"}
              => /\ sessions[i].pc = "connecting"
                 /\ sessions[i].next_full_fetch = sessions[i].last_at
        /\ sessions[i].conn_frames >= 1 => sessions[i].conn_fetches >= 1

(***************************************************************************)
(* C17: Logger.log_msg never raises into its caller: no exception of a     *)
(* failed log write leaves setup or a session.                             *)
(***************************************************************************)
C17_LogNeverRaises ==
    /\ history.setup # "raised"
    /\ \A i \in Tasks : sessions[i].raised_in # "log_msg"

(***************************************************************************)
(* C19: the supervisor classifies each configured symbol by its prefix     *)
(* only ("USD_" is USD-M, "COIN_" is COIN-M, anything else is spot), the   *)
(* session runs on the symbol with the prefix stripped, and every diff and *)
(* snapshot persisted carries asset prefix + upstream symbol.              *)
(***************************************************************************)
FamilyByPrefix(symbol) ==
    IF HasPrefix(USD_, symbol) THEN USD_M
    ELSE IF HasPrefix(COIN_, symbol) THEN COIN_M
    ELSE SPOT

UpstreamByPrefix(symbol) ==
    IF HasPrefix(USD_, symbol) THEN Slice(symbol, Len(USD_))
    ELSE IF HasPrefix(COIN_, symbol) THEN Slice(symbol, Len(COIN_))
    ELSE symbol

Canonical(symbol) == FamilyByPrefix(symbol) \o UpstreamByPrefix(symbol)

C19_PrefixClassification ==
    /\ \A i \in Tasks :
         /\ sessions[i].asset_type = FamilyByPrefix(symbols[i])
         /\ sessions[i].symbol = UpstreamByPrefix(symbols[i])
    /\ \A k \in 1..Len(Written) :
         \E j \in 1..Len(symbols) : Written[k].symbol = Canonical(symbols[j])
    /\ \A k \in 1..Len(database.depthsnapshot) :
         \E j \in 1..Len(symbols) :
            database.depthsnapshot[k].symbol = Canonical(symbols[j])

(***************************************************************************)
(* C20: every diff persisted by a spot session has (first_update_id,       *)
(* final_update_id) = (U, u) of its frame, and every diff persisted by a   *)
(* USD-M or COIN-M session has (pu + 1, u).                                *)
(***************************************************************************)
C20_UpdateIdDerivation ==
    \A k \in 1..Len(Written) :
        LET frame == history.frames[k] IN
        /\ Written[k] = history.inserted[k]
        /\ Written[k].final_update_id = frame.u
        /\ Written[k].first_update_id =
              IF frame.asset_type = SPOT THEN frame.U ELSE frame.pu + 1

\* A futures frame whose U is not pu + 1 has been persisted.
C20_Witness ==
    \E k \in 1..Len(Written) :
        /\ history.frames[k].asset_type # SPOT
        /\ history.frames[k].pu + 1 # history.frames[k].U
        /\ Written[k].first_update_id = history.frames[k].pu + 1

\* The same three statements about the sessions that no exception has left.
C13_OnLiveSessions ==
    \A i \in Tasks :
        sessions[i].pc # "raised" =>
            /\ sessions[i].pc = "connecting" /\ sessions[i].last = "none"
                  => sessions[i].next_full_fetch = clock
            /\ sessions[i].last \in {"close", "error", "unparsable"}
                  => /\ sessions[i].pc = "connecting"
                     /\ sessions[i].next_full_fetch = sessions[i].last_at
            /\ sessions[i].conn_frames >= 1 => sessions[i].conn_fetches >= 1

(***************************************************************************)
(* C14: whatever the interleaving of the sessions' insert calls and the    *)
(* pattern of failed and successful flushes, the rows written to the diff  *)
(* table followed by the rows in the buffer are exactly the rows inserted  *)
(* so far, in insertion order: none dropped, none written twice.           *)
(***************************************************************************)
C14_WriterIntegrity ==
    Written \o dispatcher.buffer = history.inserted

\* Both sessions have inserted, a flush has failed and a later one has
\* written the retained rows.
C14_Witness ==
    /\ history.failures >= 1
    /\ history.flush = "ok"
    /\ Len(Written) > dispatcher_buffer_size
    /\ \E j, k \in 1..Len(Written) : Written[j].symbol # Written[k].symbol

(***************************************************************************)
(* C15: when the store rejects a flush, the buffer is left unchanged, a    *)
(* WARNING record is logged, and insert returns to the session without     *)
(* raising; the next insert appends its row and retries the flush.         *)
(***************************************************************************)
Warnings == { k \in 1..Len(Log) : Log[k].level = WARNING }

C15_WriteFailureHandling ==
    /\ ~history.insert_raised
    /\ Cardinality(Warnings) = history.failures
    /\ history.flush = "failed" => Len(dispatcher.buffer) >= dispatcher_buffer_size

(***************************************************************************)
(* C16: insert appends exactly one row and attempts a flush exactly when   *)
(* the buffer has then reached dispatcher_buffer_size; a successful flush  *)
(* writes the whole buffer as one batch and empties it; so whenever the    *)
(* most recent flush attempt did not fail, the buffer holds fewer than     *)
(* dispatcher_buffer_size rows.                                            *)
(***************************************************************************)
InsertCalled == history.inserted' # history.inserted

FlushAttempted == history.attempts' = history.attempts + 1

InsertStep ==
    InsertCalled =>
        LET row == Last(history.inserted') IN
        /\ history.inserted' = Append(history.inserted, row)
        /\ history.attempts' \in {history.attempts, history.attempts + 1}
        /\ FlushAttempted <=> Len(dispatcher.buffer) + 1 >= dispatcher_buffer_size
        /\ FlushAttempted /\ history.flush' = "ok"
              => /\ Written' = Written \o Append(dispatcher.buffer, row)
                 /\ dispatcher.buffer' = <<>>
        /\ ~(FlushAttempted /\ history.flush' = "ok")
              => /\ Written' = Written
                 /\ dispatcher.buffer' = Append(dispatcher.buffer, row)

C16_FlushThreshold ==
    /\ [](history.flush # "failed" => Len(dispatcher.buffer) < dispatcher_buffer_size)
    /\ [][InsertStep]_vars

\* A flush has written a batch and the buffer is filling again.
C16_Witness ==
    /\ history.flush = "ok"
    /\ Len(Written) = dispatcher_buffer_size
    /\ Len(dispatcher.buffer) = dispatcher_buffer_size - 1

(***************************************************************************)
(* C18: no mutable state is shared between the sessions of different       *)
(* symbols: an insert made by one session writes and retains rows of its   *)
(* own symbol only.                                                        *)
(***************************************************************************)
C18_NoSharedBuffer ==
    [][InsertCalled =>
         LET mine == Last(history.inserted').symbol IN
         /\ \A k \in 1..Len(dispatcher.buffer') : dispatcher.buffer'[k].symbol = mine
         /\ \A k \in (Len(Written) + 1)..Len(Written') : Written'[k].symbol = mine]_vars

(***************************************************************************)
(* Two orderbook_generator instances on one store, replaying from the same *)
(* update id: "main" with return_copy true, "restart" with return_copy     *)
(* false.                                                                  *)
(***************************************************************************)
InitCopy ==
    /\ snapshot_table \in { Stamped(t) : t \in BookSnapshotTables }
    /\ diff_table \in { Stamped(t) : t \in BookDiffTables }
    /\ start_update_id = 0
    /\ full = [i \in Gens |->
                 [NewGenerator("created", start_update_id, 0)
                    EXCEPT !.return_copy = (i = "main")]]
    /\ partial = NewGenerator("unused", 0, 0)
    /\ blocks = NoBlocks
    /\ IngesterIdle

NextCopy == \E i \in Gens : orderbook_generator(i)

SpecCopy == InitCopy /\ [][NextCopy]_vars

(***************************************************************************)
(* C21: with return_copy true, the bids and asks of every FullBook already *)
(* yielded are left unchanged by all later steps of the generator; with    *)
(* return_copy false, every yielded FullBook refers to the generator's     *)
(* live maps, so a FullBook yielded earlier shows the book as of the       *)
(* latest step.                                                            *)
(***************************************************************************)
YieldsFrozen(i) ==
    \A k \in 1..Len(full[i].yielded) :
        /\ full[i].yielded'[k].bids = full[i].yielded[k].bids
        /\ full[i].yielded'[k].asks = full[i].yielded[k].asks

YieldsLive(i) ==
    \A k \in 1..Len(full[i].yielded) :
        /\ full[i].yielded[k].bids = full[i].bids_book
        /\ full[i].yielded[k].asks = full[i].asks_book

C21_ReturnCopy ==
    /\ [](\A i \in Gens : ~full[i].return_copy => YieldsLive(i))
    /\ [][\A i \in Gens : full[i].return_copy => YieldsFrozen(i)]_vars

\* Both generators have yielded the anchor and a diff's state that differs
\* from it: the copy still shows the anchor, the reference does not.
C21_Witness ==
    /\ Len(full["main"].yielded) >= 2
    /\ Len(full["restart"].yielded) = Len(full["main"].yielded)
    /\ full["main"].yielded[1].bids # full["main"].bids_book
    /\ full["restart"].yielded[1].bids = full["main"].bids_book
    /\ full["restart"].yielded[1].last_update_id = full["main"].yielded[1].last_update_id

(***************************************************************************)
(* C23: replay applies diffs in strict update-ID order: the last_update_id *)
(* values of the states one generator yields are strictly increasing,      *)
(* starting from the anchor's last_update_id, and every two consecutively  *)
(* applied diffs satisfy prev.final_update_id + 1 = next.first_update_id.  *)
(***************************************************************************)
StrictlyIncreasingIds(g) ==
    \A k \in 1..(Len(g.yielded) - 1) :
        g.yielded[k].last_update_id < g.yielded[k + 1].last_update_id

AppliedInIdOrder(g) ==
    \A k \in 2..(Len(g.rows) - 1) :
        StreamOf(g)[g.rows[k]].final_update_id + 1
            = StreamOf(g)[g.rows[k + 1]].first_update_id

C23_StrictIdOrder ==
    \A g \in {Main, partial} :
        /\ Len(g.yielded) > 0 => g.yielded[1].last_update_id = g.last_update_id
        /\ StrictlyIncreasingIds(g)
        /\ AppliedInIdOrder(g)

\* The same, for replays whose first diff passes the anchor sanity test.
C23_OrderOnSaneAnchors ==
    \A g \in {Main, partial} :
        ~FirstDiffMalformed(g) =>
            /\ Len(g.yielded) > 0 => g.yielded[1].last_update_id = g.last_update_id
            /\ StrictlyIncreasingIds(g)
            /\ AppliedInIdOrder(g)

(***************************************************************************)
(* Replay over a store with several snapshots after the anchor.  The       *)
(* anchor is at update id 1, the diffs are contiguous from 2 and each sets *)
(* ask level MaxPrice; the snapshots are in update-id order, as the venue  *)
(* hands them out, and the k-th one lists its own set of bid levels.       *)
(***************************************************************************)
MaxPending == 3

\* The bid side of the k-th snapshot: the prices whose bit is set in k - 1.
PendingBids(k) ==
    LET keys == KeysAscending({ p \in Prices : ((k - 1) \div (2 ^ (p - 1))) % 2 = 1 })
    IN  [price |-> keys, quantity |-> [i \in 1..Len(keys) |-> MaxQty]]

PendingSnapshotTables ==
    { [k \in 1..Len(ids) |->
         SnapshotRow(ids[k], PendingBids(k).price, PendingBids(k).quantity, <<>>, <<>>)] :
        ids \in { s \in UNION { [1..n -> 1..(2 * MaxDiffs + 1)] : n \in 1..(MaxPending + 1) } :
                    /\ s[1] = 1
                    /\ \A k \in 1..(Len(s) - 1) : s[k] <= s[k + 1] } }

PendingDiffTables ==
    { [i \in 1..Len(r) |-> DiffRow(r[i][1], r[i][2], <<>>, <<>>, <<MaxPrice>>, <<MaxQty>>)] :
        r \in { t \in UNION { IdRanges(n) : n \in 1..MaxDiffs } :
                  /\ t[1][1] = 2
                  /\ \A i \in 1..(Len(t) - 1) : t[i][2] + 1 = t[i + 1][1] } }

InitPending ==
    /\ snapshot_table \in { Stamped(t) : t \in PendingSnapshotTables }
    /\ diff_table \in { Stamped(t) : t \in PendingDiffTables }
    /\ start_update_id = 0
    /\ full = [i \in Gens |-> NewGenerator(IF i = "main" THEN "created" ELSE "unused",
                                           start_update_id, 0)]
    /\ partial = NewGenerator("unused", 0, 0)
    /\ blocks = NoBlocks
    /\ IngesterIdle

NextPending == \E i \in Gens : orderbook_generator(i)

SpecPending == InitPending /\ [][NextPending]_vars

(***************************************************************************)
(* C22: replay repairs from every later snapshot that intersects a diff:   *)
(* for each replayed diff d, if some snapshot S after the anchor has       *)
(* d.first_update_id <= S.last_update_id + 1 <= d.final_update_id, the     *)
(* state yielded for d is such a snapshot with d applied on top, however   *)
(* many snapshots intersect the same diff and whatever earlier pending     *)
(* snapshots are left unused.                                              *)
(***************************************************************************)
Intersecting(d) ==
    { j \in 2..Len(snapshot_table) :
        /\ d.first_update_id <= snapshot_table[j].last_update_id + 1
        /\ snapshot_table[j].last_update_id + 1 <= d.final_update_id }

C22_RepairFromEverySnapshot ==
    \A k \in 2..Len(Main.yielded) :
        LET d == StreamOf(Main)[Main.rows[k]] IN
        Intersecting(d) # {} =>
            \E j \in Intersecting(d) :
                SnapshotPlusDiff(Main.yielded[k], snapshot_table[j], d)

\* The same for a diff that the next pending snapshot intersects.
C22_RepairFromNextPending ==
    \A k \in 2..Len(Main.yielded) :
        LET d == StreamOf(Main)[Main.rows[k]] IN
        Main.hits[k] =>
            \E j \in Intersecting(d) :
                SnapshotPlusDiff(Main.yielded[k], snapshot_table[j], d)


(***************************************************************************)
(* C24: a snapshot fetch runs as a task of its own.  Whatever its outcome, *)
(* its failure is logged and swallowed: a fetch that fails leaves a record *)
(* in the log, the end of a fetch changes neither a session nor the        *)
(* writer's buffer, and the step that schedules a fetch has already        *)
(* advanced the session's due time by full_fetch_interval.                 *)
(***************************************************************************)
FetchFails == history'.fetch_failures > history.fetch_failures

FetchEnds == Len(fetch_tasks') < Len(fetch_tasks)

FetchScheduled == Len(fetch_tasks') > Len(fetch_tasks)

FetchSwallowed ==
    /\ FetchEnds => sessions' = sessions /\ dispatcher' = dispatcher
    /\ FetchScheduled =>
         \E i \in Tasks :
            /\ sessions'[i].next_full_fetch
                 = sessions[i].next_full_fetch + full_fetch_interval
            /\ fetch_tasks'[Len(fetch_tasks')].stream = i

C24_FetchFailureLoggedAndSwallowed ==
    [][(FetchFails => Len(Log') > Len(Log)) /\ FetchSwallowed]_vars

\* C24, the part the code keeps: a fetch, failed or not or never run, leaves
\* the sessions and the writer alone, and the due time advanced when the
\* fetch was scheduled.
C24_FetchSwallowed == [][FetchSwallowed]_vars

\* A failed fetch next to a session that went on to process a frame, while
\* another fetch is still pending.
C24_Witness ==
    /\ history.fetch_failures > 0
    /\ fetch_tasks # <<>>
    /\ \E i \in Tasks : FrameProcessed(sessions[i]) /\ sessions[i].conn_frames >= 2

(***************************************************************************)
(* C25: on one connection every processed frame schedules at most one      *)
(* fetch, each scheduled fetch moves the due time by exactly               *)
(* full_fetch_interval, so the due time is the time of the reset plus the  *)
(* number of fetches times the interval; the fetches scheduled up to a     *)
(* frame at elapsed time T are at most T div full_fetch_interval + 1; and  *)
(* when m whole intervals passed between a frame and the event before it,  *)
(* that frame and the m - 1 frames after it each schedule a fetch.         *)
(***************************************************************************)
Fetches(schedule, j) == Cardinality({k \in 1..j : schedule[k].fetched})

\* The time between the j-th frame of a connection and the event before it.
SilenceBefore(s, j) ==
    s.schedule[j].at - (IF j = 1 THEN s.reset_at ELSE s.schedule[j - 1].at)

C25_ScheduleArithmetic ==
    \A i \in Tasks :
       LET s == sessions[i]
           sq == s.schedule
       IN /\ s.conn_fetches = Fetches(sq, Len(sq))
          /\ s.conn_fetches <= s.conn_frames
          /\ s.next_full_fetch = s.reset_at + s.conn_fetches * full_fetch_interval
          /\ \A j \in 1..Len(sq) :
                Fetches(sq, j) <= ((sq[j].at - s.reset_at) \div full_fetch_interval) + 1
          /\ \A j \in 1..Len(sq), m \in 1..(MaxTime + MaxLag) :
                SilenceBefore(s, j) >= m * full_fetch_interval
                  => \A k \in j..(j + m - 1) : k <= Len(sq) => sq[k].fetched

\* Two whole intervals of silence, and the two frames after it.
C25_Witness ==
    \E i \in Tasks :
       LET s == sessions[i] IN
       \E j \in 1..Len(s.schedule) :
          /\ SilenceBefore(s, j) >= 2 * full_fetch_interval
          /\ Len(s.schedule) >= j + 1
          /\ s.schedule[j + 1].fetched

\* A connection on which a frame scheduled no fetch between two that did.
C25_WitnessNotDue ==
    \E i \in Tasks :
       LET sq == sessions[i].schedule IN
       /\ Len(sq) = 3
       /\ sq[1].fetched /\ ~sq[2].fetched /\ sq[3].fetched


(***************************************************************************)
(* C26: on every diff table whose rows have first_update_id <=             *)
(* final_update_id, get_all_data_blocks returns: every block it collects   *)
(* is non-empty and ends at or after its beginning, every block begins     *)
(* strictly after the block before it ends (the first one after            *)
(* last_update_id), there are never more blocks than rows, and the loop    *)
(* reaches the empty block.                                                *)
(***************************************************************************)
BlocksAdvance ==
    blocks.pc \in {"loop", "returned"} =>
       LET found == IF blocks.cur_block.size # 0
                    THEN Append(blocks.datablocks, blocks.cur_block)
                    ELSE blocks.datablocks
       IN /\ Len(found) <= Len(diff_table)
          /\ \A k \in 1..Len(found) :
                /\ found[k].size > 0
                /\ found[k].ending_update_id >= found[k].beginning_update_id
                /\ found[k].beginning_update_id >
                     (IF k = 1 THEN blocks.last_update_id
                      ELSE found[k - 1].ending_update_id)

C26_Termination == [](BlocksAdvance) /\ <>(blocks.pc = "returned")

Overlapping(table) ==
    \E i, j \in 1..Len(table) :
       /\ i # j
       /\ table[i].first_update_id <= table[j].first_update_id
       /\ table[j].first_update_id <= table[i].final_update_id

\* The call has returned two blocks or more from a table with overlapping rows.
C26_Witness ==
    /\ blocks.pc = "returned"
    /\ Len(blocks.datablocks) >= 2
    /\ Overlapping(diff_table)


(***************************************************************************)
(* C27: the generator that fetch_partial_book returns for a block anchors  *)
(* at a snapshot listed in the block's block_snapshot_ids whenever that    *)
(* list is not empty, every state it yields has a last_update_id between   *)
(* beginning_update_id - 1 and ending_update_id, and it replays no diff    *)
(* that begins after the block's ending_update_id.                         *)
(***************************************************************************)
ElementsOf(seq) == { seq[n] : n \in 1..Len(seq) }

\* The block whose generator is running: blocks begin at different ids.
FetchedBlock ==
    CHOOSE b \in ElementsOf(blocks.datablocks) : b.beginning_update_id - 1 = partial.start

Replaying == blocks.pc = "returned" /\ partial.pc \in {"suspended", "returned", "raised"}

AnchoredAtListed(b) ==
    /\ partial.yielded # <<>>
    /\ partial.yielded[1].last_update_id \in ElementsOf(b.block_snapshot_ids)

YieldsWithin(b) ==
    \A n \in 1..Len(partial.yielded) :
       /\ b.beginning_update_id - 1 <= partial.yielded[n].last_update_id
       /\ partial.yielded[n].last_update_id <= b.ending_update_id

\* The rows of the stream which the generator applied and yielded.
ReplayedDiffs ==
    { diff_depth_stream_generator(diff_table, partial.last_update_id)[partial.rows[n]] :
        n \in { m \in 1..Len(partial.rows) : partial.rows[m] # 0 } }

NoLaterBlock(b) ==
    \A d \in ReplayedDiffs : d.first_update_id <= b.ending_update_id

C27_BlockReplay ==
    Replaying =>
       /\ FetchedBlock.block_snapshot_ids # <<>> => AnchoredAtListed(FetchedBlock)
       /\ YieldsWithin(FetchedBlock)
       /\ NoLaterBlock(FetchedBlock)

\* C27, the part the code keeps: a generator that did anchor at a listed
\* snapshot stays within its block.
C27_ReplayFromListedAnchor ==
    Replaying /\ AnchoredAtListed(FetchedBlock) =>
       YieldsWithin(FetchedBlock) /\ NoLaterBlock(FetchedBlock)

\* A block replayed from a listed snapshot through two diffs, with another
\* block after it.
C27_Witness ==
    /\ Replaying
    /\ partial.pc = "returned"
    /\ AnchoredAtListed(FetchedBlock)
    /\ Len(partial.yielded) >= 3
    /\ \E b \in ElementsOf(blocks.datablocks) :
          b.beginning_update_id > FetchedBlock.ending_update_id

====
